---- MODULE Spec2Model ----
(***************************************************************************)
(* State-elimination conversion of an automaton to a regular expression,   *)
(* as implemented by to_regex.py: the expression classes, DFA.__init__ /   *)
(* set_transition_dict (the transition adapter), the augmentation done in  *)
(* main, and DFA.toregex (the elimination engine).                         *)
(*                                                                         *)
(* Python strings are TLA+ strings; a raw transition label is kept as the  *)
(* sequence of its characters so that str.split(", ") is computed.  Python *)
(* dicts are functions whose DOMAIN is the key set; the iteration order of *)
(* a dict is the order of the list `states` (followed by keys added        *)
(* later), see KeyOrder.  Every expression node is a record                *)
(* [exp_type, name, exps]; the single operand of ZeroOrMore / OneOrMore    *)
(* (field `exp` in the source) is the one element of exps.                 *)
(***************************************************************************)
EXTENDS Integers, Sequences, FiniteSets, TLC

\* ------------------------------------------------------------------ bounds
\* largest number of raw table entries that are not the no-edge marker
MaxEdges == 3
\* longest word over Alphabet on which languages are compared
MaxWordLen == 3

\* caller-supplied state labels, atomic symbols and raw labels that are tried
OrigStates == {"n1", "n2", "n3"}
Alphabet == {"a", "b"}
Undeclared == "zz"
Labels == { <<"_">>, <<"e">>, <<"a">>, <<"b">>, <<"a", ",", " ", "b">> }
\* the raw labels tried in a table over three states
FewLabels == { <<"_">>, <<"a">>, <<"b">> }
\* the raw labels tried in a table over three states when whole behaviours
\* are examined
OneLabel == { <<"_">>, <<"a">> }

VARIABLES
    pc,                 \* position in main / DFA.toregex
    states,             \* list of state labels
    init_state,         \* initial state
    final_states,       \* list of accept states
    transition_funct,   \* raw table: source -> destination -> raw label
    ds,                 \* self.ds
    transition_dict,    \* self.transition_dict
    dict_states,        \* local dict_states of toregex
    intermediate_states,\* local list of toregex
    k,                  \* position of `inter` in intermediate_states
    predecessors,       \* local list of toregex
    successors,         \* local list of toregex
    pi,                 \* position of `i` in predecessors
    sj,                 \* position of `j` in successors
    new_path,           \* local new_path of toregex (last one built)
    r,                  \* value returned by toregex
    err                 \* exception raised, "" when none

vars == <<pc, states, init_state, final_states, transition_funct, ds,
          transition_dict, dict_states, intermediate_states, k,
          predecessors, successors, pi, sj, new_path, r, err>>

\* ------------------------------------------------------- expression model
Exp(name) == [exp_type |-> "Exp", name |-> name, exps |-> <<>>]

Or(exps) == [exp_type |-> "Or", name |-> "or", exps |-> exps]

Then(exps) == [exp_type |-> "Then", name |-> "then", exps |-> exps]

ZeroOrMore(exp) == [exp_type |-> "ZeroOrMore", name |-> "zero-or-more", exps |-> <<exp>>]

OneOrMore(exp) == [exp_type |-> "OneOrMore", name |-> "one-or-more", exps |-> <<exp>>]

\* ----------------------------------------------------- generic list helpers
Range(s) == { s[n] : n \in 1..Len(s) }

RECURSIVE Concat(_)
Concat(ss) == IF ss = <<>> THEN <<>> ELSE Head(ss) \o Concat(Tail(ss))

\* str of a character sequence
RECURSIVE Str(_)
Str(cs) == IF cs = <<>> THEN "" ELSE Head(cs) \o Str(Tail(cs))

\* str.split(", "): cs is the raw label, cur the characters of the token
\* being read
RECURSIVE SplitFrom(_, _)
SplitFrom(cs, cur) ==
    IF cs = <<>> THEN << Str(cur) >>
    ELSE IF Len(cs) >= 2 /\ cs[1] = "," /\ cs[2] = " "
         THEN << Str(cur) >> \o SplitFrom(SubSeq(cs, 3, Len(cs)), <<>>)
         ELSE SplitFrom(Tail(cs), Append(cur, Head(cs)))

Split(cs) == SplitFrom(cs, <<>>)

\* ------------------------------------------------------ transition adapter
\* a key of the raw table that makes dict_states[key][v_key] = ... raise
AdapterKeyError(sts, tf) ==
    \E key \in DOMAIN tf : key \notin Range(sts) /\
        \E v_key \in DOMAIN tf[key] : tf[key][v_key] # <<"_">>

ParseLabel(label) ==
    LET parts == Split(label)
    IN  IF Len(parts) = 1 THEN Exp(Str(label))
        ELSE Or([n \in 1..Len(parts) |-> Exp(parts[n])])

set_transition_dict(sts, tf) ==
    [row \in Range(sts) |->
        LET val == IF row \in DOMAIN tf THEN tf[row] ELSE << >>
            set == { v_key \in DOMAIN val : val[v_key] # <<"_">> }
        IN  [c \in Range(sts) \cup set |->
                IF c \in set THEN ParseLabel(val[c]) ELSE Exp("_")]]

\* iteration order of the keys of a dict built over the list sts
KeyOrder(sts) == sts \o << Undeclared >>

\* --------------------------------------------------------- DFA operations
\* variant: the accept states are not kept out of the list
get_intermediate_states_keeps_final(sts, init, finals) ==
    SelectSeq(sts, LAMBDA state : state # init)

get_intermediate_states(sts, init, finals) ==
    SelectSeq(sts, LAMBDA state : state \notin ({init} \cup Range(finals)))

get_predecessors(d, sts, state) ==
    SelectSeq(KeyOrder(sts), LAMBDA key :
        /\ key \in DOMAIN d
        /\ state \in DOMAIN d[key]
        /\ d[key][state].name # "_"
        /\ key # state)

\* variant: a no-edge entry counts as a successor
get_successors_any_entry(d, sts, state) ==
    SelectSeq(KeyOrder(sts), LAMBDA key :
        /\ key \in DOMAIN d[state]
        /\ key # state)

get_successors(d, sts, state) ==
    SelectSeq(KeyOrder(sts), LAMBDA key :
        /\ key \in DOMAIN d[state]
        /\ d[state][key].name # "_"
        /\ key # state)

get_if_loop(d, state) ==
    IF d[state][state].name # "_" THEN d[state][state] ELSE Exp("_")

\* variant: the loop is wrapped without looking at its name
format_zero_or_more_always(loop) == ZeroOrMore(loop)

format_zero_or_more(loop) ==
    IF loop.name # "_" /\ Len(loop.name) > 0 THEN ZeroOrMore(loop) ELSE loop

format_one_or_more(loop) ==
    IF loop.name # "_" /\ Len(loop.name) > 0 THEN OneOrMore(loop) ELSE loop

check_one_more(pred_to_inter, inter_loop) ==
    pred_to_inter.name = inter_loop.name

NonBlank(x) == Len(x.name) # 0 /\ x.name # "e" /\ x.name # "_"

format_new_path(path_parts) ==
    LET non_blanks == SelectSeq(path_parts, NonBlank)
    IN  IF Len(non_blanks) = 0 THEN Exp("e")
        ELSE IF Len(non_blanks) = 1 THEN non_blanks[1]
        ELSE Then(Concat([n \in 1..Len(non_blanks) |->
                    IF non_blanks[n].exp_type = "Then"
                    THEN non_blanks[n].exps ELSE << non_blanks[n] >>]))

\* variant: the self slot is merged like any other slot
format_entry_bare(entry, i, j, exp) ==
    IF entry.name = "_" \/ Len(entry.name) = 0 THEN exp
    ELSE Or(<< entry, exp >>)

format_entry(entry, i, j, exp) ==
    IF entry.name = "_" \/ Len(entry.name) = 0 THEN exp
    ELSE IF i = j THEN Or(<< ZeroOrMore(entry), exp >>)
         ELSE Or(<< entry, exp >>)

\* body of the pair loop of toregex, lines 217-232: the path that replaces
\* i -> inter -> j;  d is dict_states and sd is self.ds
BuildPath(d, sd, i, inter, j) ==
    LET inter_loop == get_if_loop(sd, inter)
        pred_loop == format_zero_or_more(get_if_loop(sd, i))
        pred_to_inter == d[i][inter]
        inter_to_succ == d[inter][j]
    IN  IF check_one_more(pred_to_inter, inter_loop)
        THEN format_new_path(<< pred_loop, format_one_or_more(inter_loop), inter_to_succ >>)
        ELSE format_new_path(<< pred_loop, pred_to_inter,
                                format_zero_or_more(inter_loop), inter_to_succ >>)

\* variant: only the row of inter is removed
RemoveState_row_only(d, inter) ==
    [row \in DOMAIN d \ {inter} |-> d[row]]

\* the dict comprehension that removes the row and the column of inter
RemoveState(d, inter) ==
    [row \in DOMAIN d \ {inter} |->
        [c \in DOMAIN d[row] \ {inter} |-> d[row][c]]]

\* ------------------------------------------------------------ augmentation
\* main, lines 264-293: the table after START and FINAL were added
Augment(tf, init, finals) ==
    LET start_array ==
            [key \in DOMAIN tf \cup {"FINAL"} |->
                IF key # "FINAL" /\ key = init THEN <<"e">> ELSE <<"_">>]
        tf1 == [key \in DOMAIN tf \cup {"START"} |->
                  IF key = "START" THEN start_array
                  ELSE [c \in DOMAIN tf[key] \cup {"START"} |->
                          IF c = "START" THEN <<"_">> ELSE tf[key][c]]]
        final_array == [key \in DOMAIN tf1 \cup {"FINAL"} |-> <<"_">>]
    IN  [key \in DOMAIN tf1 \cup {"FINAL"} |->
            IF key = "FINAL" THEN final_array
            ELSE [c \in DOMAIN tf1[key] \cup {"FINAL"} |->
                    IF c = "FINAL"
                    THEN (IF key \in Range(finals) THEN <<"e">> ELSE <<"_">>)
                    ELSE tf1[key][c]]]

\* ------------------------------------------------------------------ inputs
\* the lists without repetition over a set
Perms(S) ==
    { s \in UNION { [1..n -> S] : n \in {Cardinality(S)} } :
        \A a, b \in 1..Len(s) : a # b => s[a] # s[b] }

\* the lists of one or two states
ShortStateLists == UNION { Perms(S) : S \in SUBSET {"n1", "n2"} \ {{}} }

\* states are opaque labels: a list of three states in another order is this
\* one with the states renamed
StateLists == ShortStateLists \cup { <<"n1", "n2", "n3">> }

EdgeCount(tf) ==
    Cardinality({ p \in { <<a, b>> : a \in DOMAIN tf, b \in OrigStates \cup {Undeclared} } :
                    p[2] \in DOMAIN tf[p[1]] /\ tf[p[1]][p[2]] # <<"_">> })

\* every declared pair has an entry; L is the set of labels of a table over
\* three states
CompleteTables(S, L) ==
    { tf \in [S -> [S -> IF Cardinality(S) <= 2 THEN Labels ELSE L]] :
        EdgeCount(tf) <= MaxEdges }

NoExp == Exp("")

InitCommon ==
    /\ pc = "main"
    /\ init_state \in Range(states)
    /\ final_states \in UNION { Perms(S) : S \in SUBSET Range(states) \ {{}} }
    /\ \A a, b \in 1..Len(final_states) : a < b =>
            \E m, n \in 1..Len(states) :
                m < n /\ states[m] = final_states[a] /\ states[n] = final_states[b]
    /\ ds = << >>
    /\ transition_dict = << >>
    /\ dict_states = << >>
    /\ intermediate_states = << >>
    /\ k = 1
    /\ predecessors = << >>
    /\ successors = << >>
    /\ pi = 1
    /\ sj = 1
    /\ new_path = NoExp
    /\ r = NoExp
    /\ err = ""

\* with three states one accept state is tried; several accept states are
\* tried with the shorter lists
OneAcceptOfThree == Len(states) = 3 => Len(final_states) = 1

Init ==
    /\ states \in StateLists
    /\ InitCommon
    /\ OneAcceptOfThree
    /\ transition_funct \in CompleteTables(Range(states), FewLabels)

InitFair ==
    /\ states \in StateLists
    /\ InitCommon
    /\ OneAcceptOfThree
    /\ transition_funct \in CompleteTables(Range(states), OneLabel)

\* tables in which rows and entries may be left out
SparseTables(S) ==
    { tf \in UNION { [R -> UNION { [C -> Labels] : C \in SUBSET S }] : R \in SUBSET S } :
        EdgeCount(tf) <= MaxEdges }

InitOmit ==
    /\ states \in ShortStateLists
    /\ InitCommon
    /\ transition_funct \in SparseTables(Range(states))

\* tables that name the undeclared state as a destination
MalformedTables(S) ==
    { tf \in [S -> UNION { [C -> Labels] : C \in {S, S \cup {Undeclared}} }] :
        /\ EdgeCount(tf) <= MaxEdges
        /\ \E row \in S : Undeclared \in DOMAIN tf[row] }

InitMalformed ==
    /\ states \in ShortStateLists
    /\ InitCommon
    /\ transition_funct \in MalformedTables(Range(states))

\* ----------------------------------------------------------------- actions
\* main, lines 264-300: augmentation, then DFA(states, init_state, [f],
\* transition_funct), whose constructor runs set_transition_dict
Main ==
    /\ pc = "main"
    /\ LET tf == Augment(transition_funct, init_state, final_states)
           sts == states \o << "START", "FINAL" >>
       IN  /\ transition_funct' = tf
           /\ states' = sts
           /\ IF AdapterKeyError(sts, tf)
              THEN /\ pc' = "raised"
                   /\ err' = "KeyError"
                   /\ UNCHANGED <<ds, transition_dict>>
              ELSE /\ pc' = "toregex"
                   /\ err' = ""
                   /\ ds' = set_transition_dict(sts, tf)
                   /\ transition_dict' = set_transition_dict(sts, tf)
    /\ init_state' = "START"
    /\ final_states' = << "FINAL" >>
    /\ UNCHANGED <<dict_states, intermediate_states, k, predecessors,
                   successors, pi, sj, new_path, r>>

\* toregex, lines 207-208
Begin ==
    /\ pc = "toregex"
    /\ intermediate_states' = get_intermediate_states(states, init_state, final_states)
    /\ dict_states' = ds
    /\ k' = 1
    /\ pc' = "for_inter"
    /\ UNCHANGED <<states, init_state, final_states, transition_funct, ds,
                   transition_dict, predecessors, successors, pi, sj,
                   new_path, r, err>>

\* toregex, lines 210-212: the next inter, its predecessors and successors
NextInter ==
    /\ pc = "for_inter"
    /\ k <= Len(intermediate_states)
    /\ predecessors' = get_predecessors(ds, states, intermediate_states[k])
    /\ successors' = get_successors(ds, states, intermediate_states[k])
    /\ pi' = 1
    /\ sj' = 1
    /\ pc' = "for_pair"
    /\ UNCHANGED <<states, init_state, final_states, transition_funct, ds,
                   transition_dict, dict_states, intermediate_states, k,
                   new_path, r, err>>

\* self.ds and dict_states are one object until the first removal rebinds
\* dict_states (line 208 and lines 237-239)
SameObject == k = 1

\* toregex, lines 214-235: one pass of the body of the pair loop
Pair ==
    /\ pc = "for_pair"
    /\ pi <= Len(predecessors) /\ sj <= Len(successors)
    /\ LET inter == intermediate_states[k]
           i == predecessors[pi]
           j == successors[sj]
       IN  IF j \notin DOMAIN dict_states[i]
           THEN /\ pc' = "raised"
                /\ err' = "KeyError"
                /\ new_path' = BuildPath(dict_states, ds, i, inter, j)
                /\ UNCHANGED <<dict_states, ds, pi, sj>>
           ELSE LET path == BuildPath(dict_states, ds, i, inter, j)
                    d == [dict_states EXCEPT ![i][j] =
                            format_entry(dict_states[i][j], i, j, path)]
                IN  /\ new_path' = path
                    /\ dict_states' = d
                    /\ ds' = IF SameObject THEN d ELSE ds
                    /\ IF sj < Len(successors)
                       THEN sj' = sj + 1 /\ pi' = pi
                       ELSE sj' = 1 /\ pi' = pi + 1
                    /\ UNCHANGED <<pc, err>>
    /\ UNCHANGED <<states, init_state, final_states, transition_funct,
                   transition_dict, intermediate_states, k, predecessors,
                   successors, r>>

\* toregex, lines 237-239: the pair loop is over, inter is removed
Remove ==
    /\ pc = "for_pair"
    /\ pi > Len(predecessors) \/ sj > Len(successors)
    /\ dict_states' = RemoveState(dict_states, intermediate_states[k])
    /\ ds' = RemoveState(dict_states, intermediate_states[k])
    /\ k' = k + 1
    /\ pc' = "for_inter"
    /\ UNCHANGED <<states, init_state, final_states, transition_funct,
                   transition_dict, intermediate_states, predecessors,
                   successors, pi, sj, new_path, r, err>>

\* toregex, line 241
Return ==
    /\ pc = "for_inter"
    /\ k > Len(intermediate_states)
    /\ IF /\ init_state \in DOMAIN dict_states
          /\ final_states[1] \in DOMAIN dict_states[init_state]
       THEN /\ r' = dict_states[init_state][final_states[1]]
            /\ pc' = "done"
            /\ err' = err
       ELSE /\ pc' = "raised"
            /\ err' = "KeyError"
            /\ r' = r
    /\ UNCHANGED <<states, init_state, final_states, transition_funct, ds,
                   transition_dict, dict_states, intermediate_states, k,
                   predecessors, successors, pi, sj, new_path>>

Next == Main \/ Begin \/ NextInter \/ Pair \/ Remove \/ Return

Spec == Init /\ [][Next]_vars

\* main runs to completion: a single sequential thread with no blocking call
FairSpec == InitFair /\ [][Next]_vars /\ WF_vars(Next)

SpecOmit == InitOmit /\ [][Next]_vars

SpecMalformed == InitMalformed /\ [][Next]_vars

\* ================================================================ claims
InToregex == pc \in {"for_inter", "for_pair", "done"}

\* the states not yet eliminated
Live == Range(states) \ { intermediate_states[m] : m \in 1..(k - 1) }

KeysAreSquare(d, live) ==
    /\ DOMAIN d = live
    /\ \A row \in DOMAIN d : DOMAIN d[row] = live

\* a step of toregex that changes the key set of the adjacency mapping
KeysChange == InToregex /\ DOMAIN dict_states' # DOMAIN dict_states

\* a pass of the pair loop that merged a path
PairStep == pc = "for_pair" /\ pc' = "for_pair" /\ <<pi, sj>>' # <<pi, sj>>

\* C5: with every state of the raw table declared, the adjacency mapping of
\* toregex has exactly the ordered pairs of live states as keys at every
\* point, and the key set changes only by losing the row and the column of
\* the state being eliminated.
C5_KeysAreLivePairs ==
    /\ [](InToregex => /\ KeysAreSquare(dict_states, Live)
                       /\ KeysAreSquare(ds, Live))
    /\ [][KeysChange =>
            /\ pc = "for_pair" /\ pc' = "for_inter"
            /\ intermediate_states[k] \in DOMAIN dict_states
            /\ KeysAreSquare(dict_states', DOMAIN dict_states \ {intermediate_states[k]})
            /\ Cardinality(DOMAIN dict_states') = Cardinality(DOMAIN dict_states) - 1]_vars

C5_Witness ==
    /\ pc = "for_pair"
    /\ k = 2
    /\ pi = 2
    /\ DOMAIN dict_states = {"n2", "n3", "START", "FINAL"}

\* the states that are neither the working start nor the working accept
\* state, in the order of the list of states
ToEliminate ==
    SelectSeq(states, LAMBDA s : s # init_state /\ s # final_states[1])

\* C6: toregex terminates; the states other than start and accept are
\* eliminated one at a time in listed order, each once; at the end the live
\* states are exactly start and accept and the value returned is
\* adjacency[start][accept].
C6_EliminatesAllAndReturns ==
    /\ <>(pc = "done")
    /\ [](pc = "done" =>
            /\ KeysAreSquare(dict_states, {init_state, final_states[1]})
            /\ r = dict_states[init_state][final_states[1]])
    /\ [][KeysChange =>
            LET n == Cardinality(Range(states)) - Cardinality(DOMAIN dict_states) + 1
            IN  /\ n <= Len(ToEliminate)
                /\ DOMAIN dict_states' = DOMAIN dict_states \ {ToEliminate[n]}
                /\ ToEliminate[n] \in DOMAIN dict_states]_vars

C6_Witness ==
    /\ pc = "done"
    /\ intermediate_states = << "n1", "n2", "n3" >>
    /\ DOMAIN dict_states = {"START", "FINAL"}
    /\ r.exp_type = "Then"

\* C7: a merge into adjacency[p][s] replaces a no-edge (or empty) slot by the
\* new path, turns any other slot into Choice(existing, newPath) when p # s
\* and into Choice(ZeroOrMore(existing), newPath) when p = s, where the old
\* self-loop is never a bare alternative.
C7_Merge ==
    [][PairStep =>
        LET i == predecessors[pi]
            j == successors[sj]
            existing == dict_states[i][j]
            merged == dict_states'[i][j]
        IN  IF existing.name = "_" \/ existing.name = ""
            THEN merged = new_path'
            ELSE IF i # j
                 THEN merged = Or(<< existing, new_path' >>)
                 ELSE /\ merged = Or(<< ZeroOrMore(existing), new_path' >>)
                      /\ \A n \in 1..Len(merged.exps) : merged.exps[n] # existing]_vars

C7_Witness ==
    /\ pc = "for_pair"
    /\ \E p \in DOMAIN dict_states :
        /\ transition_dict[p][p].name # "_"
        /\ dict_states[p][p] = Or(<< ZeroOrMore(transition_dict[p][p]), new_path >>)

\* the states reached from the set S along entries that are not NoEdge, in at
\* most n further steps
RECURSIVE ReachFrom(_, _, _)
ReachFrom(d, S, n) ==
    IF n = 0 THEN S
    ELSE ReachFrom(d, S \cup { q \in DOMAIN d :
                        \E p \in S : q \in DOMAIN d[p] /\ d[p][q].name # "_" }, n - 1)

HasPath(d, from, to) == to \in ReachFrom(d, {from}, Cardinality(DOMAIN d))

\* C2: when no sequence of transitions other than NoEdge leads from the start
\* state to the accept state, toregex returns the NoEdge sentinel and does
\* not raise.
C2_NoPathGivesNoEdge ==
    (pc \in {"done", "raised"} /\ transition_dict # << >>
        /\ ~HasPath(transition_dict, init_state, final_states[1]))
    => (pc = "done" /\ r = Exp("_"))

C2_Witness ==
    /\ pc = "done"
    /\ \E p \in DOMAIN transition_dict : HasPath(transition_dict, p, p)
    /\ ~HasPath(transition_dict, init_state, final_states[1])
    /\ r = Exp("_")
    /\ new_path # NoExp

RECURSIVE ContainsNoEdge(_)
ContainsNoEdge(e) ==
    \/ e.name = "_"
    \/ \E n \in 1..Len(e.exps) : ContainsNoEdge(e.exps[n])

WholeOrAbsent(e) == e = Exp("_") \/ ~ContainsNoEdge(e)

NoEdgeIsNeverAToken ==
    \A row \in DOMAIN transition_funct : \A c \in DOMAIN transition_funct[row] :
        LET parts == Split(transition_funct[row][c])
        IN  Len(parts) > 1 => "_" \notin Range(parts)

\* C10: when no raw label lists the no-edge marker as one token of a list,
\* NoEdge occurs in the adjacency mapping of toregex only as a whole entry,
\* and a returned expression other than NoEdge contains no NoEdge.
C10_NoEdgeOnlyAsWholeEntry ==
    (InToregex /\ NoEdgeIsNeverAToken) =>
        /\ \A row \in DOMAIN dict_states : \A c \in DOMAIN dict_states[row] :
                WholeOrAbsent(dict_states[row][c])
        /\ pc = "done" => WholeOrAbsent(r)

C10_Witness ==
    /\ pc = "done"
    /\ NoEdgeIsNeverAToken
    /\ r.exp_type = "Or"
    /\ dict_states["FINAL"]["START"] = Exp("_")

\* ----------------------------------------------- languages of expressions
Words == UNION { [1..n -> Alphabet] : n \in 0..MaxWordLen }

\* w is in the language denoted by the expression e
RECURSIVE Matches(_, _), MatchesAll(_, _)
Matches(e, w) ==
    CASE e.exp_type = "Exp" ->
            IF e.name = "_" THEN FALSE
            ELSE IF e.name = "e" \/ e.name = "" THEN w = << >>
            ELSE w = << e.name >>
      [] e.exp_type = "Or" -> \E n \in 1..Len(e.exps) : Matches(e.exps[n], w)
      [] e.exp_type = "Then" -> MatchesAll(e.exps, w)
      [] e.exp_type = "ZeroOrMore" ->
            \/ w = << >>
            \/ \E m \in 1..Len(w) : /\ Matches(e.exps[1], SubSeq(w, 1, m))
                                    /\ Matches(e, SubSeq(w, m + 1, Len(w)))
      [] e.exp_type = "OneOrMore" ->
            \E m \in 0..Len(w) :
                /\ Matches(e.exps[1], SubSeq(w, 1, m))
                /\ Matches(ZeroOrMore(e.exps[1]), SubSeq(w, m + 1, Len(w)))

MatchesAll(es, w) ==
    IF es = << >> THEN w = << >>
    ELSE \E m \in 0..Len(w) : /\ Matches(Head(es), SubSeq(w, 1, m))
                              /\ MatchesAll(Tail(es), SubSeq(w, m + 1, Len(w)))

\* the states reached from S along entries that match the empty word
RECURSIVE SilentClosure(_, _, _)
SilentClosure(d, S, n) ==
    IF n = 0 THEN S
    ELSE SilentClosure(d, S \cup { q \in DOMAIN d :
                            \E p \in S : Matches(d[p][q], << >>) }, n - 1)

\* the states in which the automaton d can be after reading w from S; every
\* entry of the adapter's table reads at most one symbol
RECURSIVE Run(_, _, _)
Run(d, S, w) ==
    LET C == SilentClosure(d, S, Cardinality(DOMAIN d))
    IN  IF w = << >> THEN C
        ELSE Run(d, { q \in DOMAIN d : \E p \in C : Matches(d[p][q], << Head(w) >>) },
                 Tail(w))

Accepts(d, from, to, w) == to \in Run(d, {from}, w)

\* C1: the expression returned by toregex denotes exactly the words that
\* label a path from the start state to the accept state of the automaton
\* it was built from (compared on every word of at most MaxWordLen symbols).
C1_SameLanguage ==
    pc = "done" =>
        \A w \in Words :
            Matches(r, w) <=> Accepts(transition_dict, init_state, final_states[1], w)

\* -------------------------------------------------------- textual rendering
\* str(list): the renderings of the elements separated by ", " in brackets
RECURSIVE Render(_), RenderList(_)
Render(e) ==
    CASE e.exp_type = "Exp" -> "Exp(" \o e.name \o ")"
      [] e.exp_type = "Or" -> "Or(" \o RenderList(e.exps) \o ")"
      [] e.exp_type = "Then" -> "Then(" \o RenderList(e.exps) \o ")"
      [] e.exp_type = "ZeroOrMore" -> "ZeroOrMore(" \o Render(e.exps[1]) \o ")"
      [] e.exp_type = "OneOrMore" -> "OneOrMore(" \o Render(e.exps[1]) \o ")"

RECURSIVE RenderItems(_)
RenderItems(es) ==
    IF es = << >> THEN ""
    ELSE IF Len(es) = 1 THEN Render(es[1])
    ELSE Render(es[1]) \o ", " \o RenderItems(Tail(es))

RenderList(es) == "[" \o RenderItems(es) \o "]"

\* C3: the replacement path for (p, s) omits pathToX and repeats the
\* self-loop of X as OneOrMore exactly when adjacency[p][X] and the self-loop
\* of X have the same textual rendering; in every other case pathToX is kept
\* and the self-loop is wrapped as ZeroOrMore.
C3_TieBreakByRendering ==
    [][PairStep =>
        LET X == intermediate_states[k]
            p == predecessors[pi]
            s == successors[sj]
            selfLoop == get_if_loop(ds, X)
            loopP == format_zero_or_more(get_if_loop(ds, p))
            pathToX == dict_states[p][X]
            pathFromX == dict_states[X][s]
        IN  new_path' =
              IF Render(pathToX) = Render(selfLoop)
              THEN format_new_path(<< loopP, format_one_or_more(selfLoop), pathFromX >>)
              ELSE format_new_path(<< loopP, pathToX,
                                      format_zero_or_more(selfLoop), pathFromX >>)]_vars

\* the mapping d with every Epsilon self-slot replaced by NoEdge
WithoutEpsilonLoops(d) ==
    [row \in DOMAIN d |-> [c \in DOMAIN d[row] |->
        IF row = c /\ d[row][c] = Exp("e") THEN Exp("_") ELSE d[row][c]]]

RECURSIVE RepeatsEpsilon(_)
RepeatsEpsilon(e) ==
    \/ e.exp_type \in {"ZeroOrMore", "OneOrMore"} /\ e.exps[1] = Exp("e")
    \/ \E n \in 1..Len(e.exps) : RepeatsEpsilon(e.exps[n])

\* C9: an Epsilon self-loop is treated as no self-loop: every replacement
\* path is the one built with NoEdge in that self-slot, and no
\* ZeroOrMore(Epsilon) or OneOrMore(Epsilon) enters the adjacency mapping.
C9_EpsilonLoopIsNoLoop ==
    [][PairStep =>
        /\ new_path' = BuildPath(WithoutEpsilonLoops(dict_states), WithoutEpsilonLoops(ds),
                                 predecessors[pi], intermediate_states[k], successors[sj])
        /\ \A row \in DOMAIN dict_states' : \A c \in DOMAIN dict_states'[row] :
                ~RepeatsEpsilon(dict_states'[row][c])]_vars

NamesUndeclaredDestination ==
    \E row \in DOMAIN transition_funct : \E c \in DOMAIN transition_funct[row] :
        c \notin Range(states)

\* C4: a raw table that names an undeclared destination makes the
\* construction fail with MalformedTransition before any adjacency mapping
\* exists and before any elimination step.
C4_UndeclaredDestinationRejected ==
    NamesUndeclaredDestination =>
        \/ pc = "main"
        \/ /\ pc = "raised"
           /\ err = "MalformedTransition"
           /\ ds = << >>
           /\ dict_states = << >>

\* C8: after the augmentation in main the adjacency mapping has START ->
\* initial state = Epsilon and START -> any other state = NoEdge, a -> FINAL
\* = Epsilon for the accept states a and NoEdge for the others, NoEdge from
\* FINAL everywhere, and the working start and accept are START and FINAL.
C8_AugmentedShape ==
    [][pc = "main" =>
        /\ pc' = "toregex"
        /\ init_state' = "START"
        /\ final_states' = << "FINAL" >>
        /\ KeysAreSquare(ds', Range(states) \cup {"START", "FINAL"})
        /\ \A q \in DOMAIN ds' :
            /\ ds'["START"][q] = IF q = init_state THEN Exp("e") ELSE Exp("_")
            /\ ds'[q]["FINAL"] = IF q \in Range(final_states) THEN Exp("e") ELSE Exp("_")
            /\ ds'["FINAL"][q] = Exp("_")]_vars

====
